---------------------------- MODULE Spec2Model ----------------------------
(***************************************************************************)
(* Model of intx's multi-word unsigned division, lib/intx/div.cpp:         *)
(* udivrem (dispatcher), udivrem_by1, udivrem_by2, add, submul and         *)
(* udivrem_knuth.                                                          *)
(*                                                                         *)
(* Words are WordBits wide (the library's words are 64 bits wide; the      *)
(* algorithms are written over an arbitrary power-of-two base, and every   *)
(* word operation below wraps modulo Base exactly as the uint64_t          *)
(* operation wraps modulo 2^64).  Arrays are sequences; the C index i is   *)
(* the sequence index i+1 (At, Put).                                       *)
(*                                                                         *)
(* The word primitives (add_with_carry, sub_with_carry, umul, clz), the    *)
(* reciprocal divisions udivrem_2by1 / udivrem_3by2 and internal::normalize*)
(* are declared in headers, outside div.cpp; they are modelled by their    *)
(* contracts: exact arithmetic on words, exact 2by1 / 3by2 division of a   *)
(* numerator whose high part is below a normalized divisor, and a          *)
(* normalize that shifts both operands left by the leading zero bits of    *)
(* the divisor's top word, keeps the bits shifted out of the numerator in  *)
(* an extension word, and counts the numerator's words so that the word    *)
(* above the counted ones is never needed: the count takes in one more     *)
(* word when the shift spills into it or when the top word is not below    *)
(* the divisor's top word.  udivrem's test num_numerator_words <=          *)
(* num_divisor_words and the seeds of udivrem_by1 / udivrem_by2 rest on    *)
(* that count; with a count of the non-zero words alone udivrem(Base-1,    *)
(* Base/2) would return (0, Base-1).                                       *)
(***************************************************************************)
EXTENDS Integers, Sequences, FiniteSets, TLC

\* Width of a word in bits (64 in the library, scaled down).
WordBits == 2
\* uint<256>::num_words, the smallest instantiation of udivrem.
NumWords == 4
\* Longest array handed to submul when it is exercised on its own.
MaxLen == 2

Base == 2 ^ WordBits
WordMax == Base - 1
HighBit == Base \div 2
Words == 0 .. WordMax
\* Word values the operands of udivrem are built from: all words for
\* WordBits = 2, the extreme ones for wider words.
InputWords == {0, 1, HighBit - 1, HighBit, WordMax}

\* INTX_REQUIRE(cond), and the bound of an index: the name of what failed.
Req(cond, name) == IF cond THEN {} ELSE {name}

At(a, i) == a[i + 1]
Put(a, i, x) == [a EXCEPT ![i + 1] = x]
Zeros(k) == [i \in 1 .. k |-> 0]

RECURSIVE Val(_)
\* The number a little-endian word array denotes.
Val(a) == IF Len(a) = 0 THEN 0 ELSE a[1] + Base * Val(Tail(a))

RECURSIVE ToWords(_, _)
\* The k low words of the number x.
ToWords(x, k) == IF k = 0 THEN << >> ELSE <<x % Base>> \o ToWords(x \div Base, k - 1)

(***************************************************************************)
(* Word primitives.                                                        *)
(***************************************************************************)
RECURSIVE clz(_)
\* Leading zero bits of a non-zero word.
clz(x) == IF x >= HighBit THEN 0 ELSE 1 + clz(2 * x)

shl(x, s) == (x * 2 ^ s) % Base
shr(x, s) == x \div (2 ^ s)

RECURSIVE bitor(_, _)
bitor(x, y) ==
    IF x = 0 THEN y
    ELSE IF y = 0 THEN x
    ELSE (IF x % 2 = 1 \/ y % 2 = 1 THEN 1 ELSE 0) + 2 * bitor(x \div 2, y \div 2)

add_with_carry(x, y, carry) ==
    [value |-> (x + y + carry) % Base, carry |-> (x + y + carry) \div Base]

sub_with_carry(x, y, carry) ==
    [value |-> (x - y - carry) % Base, carry |-> IF x < y + carry THEN 1 ELSE 0]

umul(x, y) == [hi |-> (x * y) \div Base, lo |-> (x * y) % Base]

\* The divisor of a reciprocal division must have its top bit set.
reciprocal_2by1_ok(d) == d >= HighBit
reciprocal_3by2_ok(d) == d.hi >= HighBit

Val128(x) == x.hi * Base + x.lo

\* Exact division of the two-word (uhi, ulo) by the normalized word d.
udivrem_2by1(uhi, ulo, d) ==
    [quot |-> ((uhi * Base + ulo) \div d) % Base,
     rem  |-> (uhi * Base + ulo) % d,
     ok   |-> uhi < d]

\* Exact division of the three-word (u2, u1, u0) by the normalized two-word d.
udivrem_3by2(u2, u1, u0, d) ==
    LET x == (u2 * Base + u1) * Base + u0
        r == x % Val128(d)
    IN  [quot |-> (x \div Val128(d)) % Base,
         rem  |-> [hi |-> r \div Base, lo |-> r % Base],
         ok   |-> u2 * Base + u1 < Val128(d)]

(***************************************************************************)
(* internal::normalize                                                     *)
(***************************************************************************)
RECURSIVE count_words(_, _)
\* for (m = num_words; m > 0 && u[m - 1] == 0; --m);
count_words(a, k) == IF k > 0 /\ At(a, k - 1) = 0 THEN count_words(a, k - 1) ELSE k

\* The words of a shifted left by s bits, into k words (s > 0 is s < WordBits).
shift_words(a, s, k) ==
    [i \in 1 .. k |->
        LET lo == IF i >= 2 /\ i - 1 <= Len(a) THEN shr(a[i - 1], WordBits - s) ELSE 0
            hi == IF i <= Len(a) THEN shl(a[i], s) ELSE 0
        IN  bitor(hi, lo)]

\* The numerator gets num_words + 1 words (the last is the extension word).
\* bump: the highest word of the numerator is significant, that is the shift
\* spilled into un[m] or un[m - 1] is not below the divisor's top word; with
\* m = 0 the test reads un[-1], outside the numerator, so either answer can
\* come out (bump0).
normalize(u, v, bump0) ==
    LET m0 == count_words(u, NumWords)
        n  == count_words(v, NumWords)
        s  == clz(At(v, n - 1))
        vn == IF s # 0 THEN shift_words(v, s, NumWords) ELSE v
        un == IF s # 0 THEN shift_words(u, s, NumWords + 1) ELSE u \o <<0>>
        bump == IF m0 = 0 THEN bump0
                ELSE At(un, m0) # 0 \/ At(un, m0 - 1) >= At(vn, n - 1)
    IN  [divisor |-> vn,
         numerator |-> un,
         num_divisor_words |-> n,
         num_numerator_words |-> IF bump THEN m0 + 1 ELSE m0,
         shift |-> s]

(***************************************************************************)
(* add, submul: over one memory, r / s, x and y being offsets into it, so  *)
(* that the aliasing the callers use (r = x) is what is modelled.          *)
(***************************************************************************)
RECURSIVE add_loop(_, _, _, _, _, _, _)
add_loop(mem, s, x, y, len, i, carry) ==
    IF i >= len THEN [mem |-> mem, carry |-> carry]
    ELSE LET a == add_with_carry(At(mem, x + i), At(mem, y + i), carry)
         IN  add_loop(Put(mem, s + i, a.value), s, x, y, len, i + 1, a.carry)

add(mem, s, x, y, len) == add_loop(mem, s, x, y, len, 0, 0)

\* As submul_borrow, the borrow of the first subtraction dropped.
submul_borrow_one(p, s, t) == p.hi + t.carry

\* borrow = p.hi + s.carry + t.carry;
submul_borrow(p, s, t) == p.hi + s.carry + t.carry

RECURSIVE submul_loop(_, _, _, _, _, _, _, _, _)
submul_loop(mem, r, x, y, len, multiplier, i, borrow, wrapped) ==
    IF i >= len THEN [mem |-> mem, borrow |-> borrow, wrapped |-> wrapped]
    ELSE LET s == sub_with_carry(At(mem, x + i), borrow, 0)
             p == umul(At(mem, y + i), multiplier)
             t == sub_with_carry(s.value, p.lo, 0)
             b == submul_borrow(p, s, t)
         IN  submul_loop(Put(mem, r + i, t.value), r, x, y, len, multiplier,
                         i + 1, b % Base, wrapped \/ b > WordMax)

submul(mem, r, x, y, len, multiplier) ==
    submul_loop(mem, r, x, y, len, multiplier, 0, 0, FALSE)


(***************************************************************************)
(* udivrem_by1, udivrem_by2: one iteration of the do-while loop.           *)
(***************************************************************************)
\* As by1_step, with the two results of udivrem_2by1 tied the other way round.
by1_step_swapped(u, i, r, d) ==
    LET t == udivrem_2by1(r.lo, At(u, i), d)
    IN  [u |-> Put(u, i, t.rem), rem |-> [hi |-> 0, lo |-> t.quot], ok |-> t.ok]

\* std::tie(*it, rem) = udivrem_2by1({rem, *it}, d, reciprocal);
by1_step(u, i, r, d) ==
    LET t == udivrem_2by1(r.lo, At(u, i), d)
    IN  [u |-> Put(u, i, t.quot), rem |-> [hi |-> 0, lo |-> t.rem], ok |-> t.ok]

\* std::tie(*it, rem) = udivrem_3by2(rem.hi, rem.lo, *it, d, reciprocal);
by2_step(u, i, r, d) ==
    LET t == udivrem_3by2(r.hi, r.lo, At(u, i), d)
    IN  [u |-> Put(u, i, t.quot), rem |-> t.rem, ok |-> t.ok]

\* auto rem = u[len - 1]; u[len - 1] = 0;
by1_seed(u, len) ==
    [u |-> Put(u, len - 1, 0), rem |-> [hi |-> 0, lo |-> At(u, len - 1)]]

\* As by2_seed, resetting the top word only.
by2_seed_top_only(u, len) ==
    [u |-> Put(u, len - 1, 0),
     rem |-> [hi |-> At(u, len - 1), lo |-> At(u, len - 2)]]

\* auto rem = uint128{u[len - 1], u[len - 2]}; u[len - 1] = u[len - 2] = 0;
by2_seed(u, len) ==
    [u |-> Put(Put(u, len - 1, 0), len - 2, 0),
     rem |-> [hi |-> At(u, len - 1), lo |-> At(u, len - 2)]]

(***************************************************************************)
(* udivrem_knuth: one iteration of the loop over j.                        *)
(***************************************************************************)
knuth_divisor(d, dlen) == [hi |-> At(d, dlen - 1), lo |-> At(d, dlen - 2)]

\* if (uint128(u2, u1) == divisor)
knuth_overflows(u, d, dlen, j) ==
    At(u, j + dlen) = At(d, dlen - 1) /\ At(u, j + dlen - 1) = At(d, dlen - 2)

\* As knuth_overflow_top, the borrow not folded into u[j + dlen].
knuth_overflow_top_kept(u2, borrow) == u2

\* u[j + dlen] = u2 - <the borrow of submul>;
knuth_overflow_top(u2, borrow) == (u2 - borrow) % Base

\* qhat = ~uint64_t{0}; u[j + dlen] = u2 - submul(&u[j], &u[j], d, dlen, qhat);
knuth_overflow_branch(u, d, dlen, j) ==
    LET u2 == At(u, j + dlen)
        qhat == WordMax
        s == submul(u \o d, j, j, Len(u), dlen, qhat)
        ua == SubSeq(s.mem, 1, Len(u))
    IN  [u |-> Put(ua, j + dlen, knuth_overflow_top(u2, s.borrow)),
         qhat |-> qhat, trial |-> qhat, carry |-> FALSE,
         wrapped |-> s.wrapped \/ u2 < s.borrow,
         failed |-> Req(dlen >= 1, "submul.len")]

\* As knuth_decrement, the decrement forgotten.
knuth_decrement_skipped(qhat) == qhat

\* --qhat;
knuth_decrement(qhat) == (qhat - 1) % Base

\* As knuth_add_back_top, the carry of add dropped.
knuth_add_back_no_carry(top, dhi, carry) == (top + dhi) % Base

\* u[j + dlen - 1] += divisor.hi + add(&u[j], &u[j], d, dlen - 1);
knuth_add_back_top(top, dhi, carry) == (top + dhi + carry) % Base

\* std::tie(qhat, rhat) = udivrem_3by2(...); submul over dlen - 2 words; the
\* two sub_with_carry; if (carry) { --qhat; u[j+dlen-1] += divisor.hi + add(...); }
knuth_normal_branch(u, d, dlen, j) ==
    LET divisor == knuth_divisor(d, dlen)
        t == udivrem_3by2(At(u, j + dlen), At(u, j + dlen - 1), At(u, j + dlen - 2), divisor)
        s == submul(u \o d, j, j, Len(u), dlen - 2, t.quot)
        ua == SubSeq(s.mem, 1, Len(u))
        c1 == sub_with_carry(t.rem.lo, s.borrow, 0)
        c2 == sub_with_carry(t.rem.hi, c1.carry, 0)
        ub == Put(Put(ua, j + dlen - 2, c1.value), j + dlen - 1, c2.value)
        a == add(ub \o d, j, j, Len(u), dlen - 1)
        uc == SubSeq(a.mem, 1, Len(u))
        ud == Put(uc, j + dlen - 1, knuth_add_back_top(At(uc, j + dlen - 1), divisor.hi, a.carry))
    IN  IF c2.carry = 1
        THEN [u |-> ud, qhat |-> knuth_decrement(t.quot), trial |-> t.quot, carry |-> TRUE,
              wrapped |-> s.wrapped,
              failed |-> Req(t.ok, "3by2") \cup Req(dlen - 2 >= 1, "submul.len")
                           \cup Req(dlen - 1 >= 2, "add.len")]
        ELSE [u |-> ub, qhat |-> t.quot, trial |-> t.quot, carry |-> FALSE,
              wrapped |-> s.wrapped,
              failed |-> Req(t.ok, "3by2") \cup Req(dlen - 2 >= 1, "submul.len")]

knuth_step(u, d, dlen, j) ==
    IF knuth_overflows(u, d, dlen, j)
    THEN knuth_overflow_branch(u, d, dlen, j)
    ELSE knuth_normal_branch(u, d, dlen, j)

\* for (int j = ulen - dlen - 1; ...
knuth_first_j(ulen, dlen) == ulen - dlen - 1

(***************************************************************************)
(* udivrem_by1 and udivrem_knuth as whole functions.                       *)
(***************************************************************************)
RECURSIVE by1_loop(_, _, _, _, _)
by1_loop(u, i, r, d, ok) ==
    IF i < 0 THEN [u |-> u, rem |-> r.lo, ok |-> ok]
    ELSE LET t == by1_step(u, i, r, d)
         IN  by1_loop(t.u, i - 1, t.rem, d, ok /\ t.ok)

udivrem_by1(u, len, d) ==
    LET seed == by1_seed(u, len)
    IN  by1_loop(seed.u, len - 2, seed.rem, d, len >= 2 /\ reciprocal_2by1_ok(d))

RECURSIVE knuth_loop(_, _, _, _, _, _)
knuth_loop(q, u, d, dlen, k, ok) ==
    IF k < 0 THEN [q |-> q, u |-> u, ok |-> ok]
    ELSE LET t == knuth_step(u, d, dlen, k)
         IN  knuth_loop(Put(q, k, t.qhat), t.u, d, dlen, k - 1,
                        ok /\ t.failed = {} /\ ~t.wrapped)

\* Without a normalized divisor reciprocal_3by2 has no defined result, and
\* no quotient is produced.
udivrem_knuth(q, u, ulen, d, dlen) ==
    IF dlen >= 3 /\ ulen >= dlen /\ reciprocal_3by2_ok(knuth_divisor(d, dlen))
    THEN knuth_loop(q, u, d, dlen, knuth_first_j(ulen, dlen), TRUE)
    ELSE [q |-> << >>, u |-> << >>, ok |-> FALSE]

(***************************************************************************)
(* udivrem: the dispatch, and the remainder of the Knuth path,             *)
(* de-normalized.                                                          *)
(***************************************************************************)
\* As early_return, returning early for one numerator word more.
early_return_loose(a) == a.num_numerator_words <= a.num_divisor_words + 1

\* As early_return, with < for <=.
early_return_strict(a) == a.num_numerator_words < a.num_divisor_words

\* if (na.num_numerator_words <= na.num_divisor_words) return {0, u};
early_return(a) == a.num_numerator_words <= a.num_divisor_words

\* As denormalize_word, without the bits of the next word.
denormalize_word_low(lo, hi, s) == shr(lo, s)

\* na.shift ? (un[i] >> na.shift) | (un[i + 1] << (64 - na.shift)) : un[i]
denormalize_word(lo, hi, s) ==
    IF s # 0 THEN bitor(shr(lo, s), shl(hi, WordBits - s)) ELSE lo

\* The shift amounts that expression evaluates.
denormalize_shifts(s) == IF s # 0 THEN {s, WordBits - s} ELSE {}

denormalize(un, n, s) ==
    [i \in 1 .. NumWords |->
        IF i - 1 < n - 1 THEN denormalize_word(At(un, i - 1), At(un, i), s)
        ELSE IF i - 1 = n - 1 THEN shr(At(un, i - 1), s)
        ELSE 0]

\* return {na.numerator, r >> na.shift};
small_result(un, r, s) ==
    [quot |-> SubSeq(un, 1, NumWords),
     rem  |-> ToWords(Val128(r) \div (2 ^ s), NumWords)]

(***************************************************************************)
(* The state of one call of udivrem(u, v).                                 *)
(***************************************************************************)
VARIABLES
    u, v,       \* the operands, word arrays of NumWords words
    pc,         \* where the call is
    na,         \* the normalized operand bundle
    q,          \* udivrem's q, udivrem_knuth's quotient array
    rem,        \* udivrem_by1's / udivrem_by2's running remainder
    it,         \* their iterator, as an index into u
    j,          \* udivrem_knuth's loop index
    last,       \* what the last udivrem_knuth iteration did
    res,        \* the returned div_result
    failed,     \* the INTX_REQUIREs and index bounds violated so far
    sm,         \* a stand-alone call of submul
    xc          \* a cross-check of udivrem_by1 against udivrem_knuth

vars == <<u, v, pc, na, q, rem, it, j, last, res, failed, sm, xc>>

NoNa == [divisor |-> << >>, numerator |-> << >>, num_divisor_words |-> 0,
         num_numerator_words |-> 0, shift |-> 0]
NoRem == [hi |-> 0, lo |-> 0]
NoLast == [branch |-> "none", j |-> 0, window |-> 0, trial |-> 0, carry |-> FALSE,
           wrapped |-> FALSE, overflowed |-> FALSE]
NoRes == [quot |-> << >>, rem |-> << >>]
NoSm == [state |-> "none"]
NoXc == [state |-> "none"]

Operands == [1 .. NumWords -> InputWords]

Init ==
    /\ u \in Operands
    /\ v \in {x \in Operands : Val(x) # 0}
    /\ pc = "call"
    /\ na = NoNa
    /\ q = Zeros(NumWords)
    /\ rem = NoRem
    /\ it = 0
    /\ j = 0
    /\ last = NoLast
    /\ res = NoRes
    /\ failed = {}
    /\ sm = NoSm
    /\ xc = NoXc

\* auto na = internal::normalize(u, v);
Normalize ==
    /\ pc = "call"
    /\ \E bump0 \in BOOLEAN :
          /\ (Val(u) # 0 => bump0)
          /\ na' = normalize(u, v, bump0)
    /\ pc' = "dispatch"
    /\ UNCHANGED <<u, v, q, rem, it, j, last, res, failed, sm, xc>>

\* if (na.num_numerator_words <= na.num_divisor_words) return {0, u};
EarlyReturn ==
    /\ pc = "dispatch"
    /\ early_return(na)
    /\ res' = [quot |-> Zeros(NumWords), rem |-> u]
    /\ pc' = "early"
    /\ UNCHANGED <<u, v, na, q, rem, it, j, last, failed, sm, xc>>

\* if (na.num_divisor_words == 1): udivrem_by1 up to its loop.
By1Enter ==
    /\ pc = "dispatch"
    /\ ~early_return(na)
    /\ na.num_divisor_words = 1
    /\ LET len == na.num_numerator_words
           seed == by1_seed(na.numerator, len)
       IN  /\ na' = [na EXCEPT !.numerator = seed.u]
           /\ rem' = seed.rem
           /\ it' = len - 2
           /\ failed' = failed \cup Req(len >= 2, "by1.len")
                               \cup Req(len - 1 <= NumWords, "index.u")
                               \cup Req(reciprocal_2by1_ok(At(na.divisor, 0)), "reciprocal")
    /\ pc' = "by1"
    /\ UNCHANGED <<u, v, q, j, last, res, sm, xc>>

By1Step ==
    /\ pc = "by1"
    /\ it >= 0
    /\ LET t == by1_step(na.numerator, it, rem, At(na.divisor, 0))
       IN  /\ na' = [na EXCEPT !.numerator = t.u]
           /\ rem' = t.rem
           /\ failed' = failed \cup Req(t.ok, "2by1")
    /\ it' = it - 1
    /\ UNCHANGED <<u, v, pc, q, j, last, res, sm, xc>>

\* return rem; and udivrem's return {na.numerator, r >> na.shift};
By1Return ==
    /\ pc = "by1"
    /\ it < 0
    /\ res' = small_result(na.numerator, rem, na.shift)
    /\ pc' = "done1"
    /\ UNCHANGED <<u, v, na, q, rem, it, j, last, failed, sm, xc>>

\* if (na.num_divisor_words == 2): udivrem_by2 up to its loop.
By2Enter ==
    /\ pc = "dispatch"
    /\ ~early_return(na)
    /\ na.num_divisor_words = 2
    /\ LET len == na.num_numerator_words
           seed == by2_seed(na.numerator, len)
       IN  /\ na' = [na EXCEPT !.numerator = seed.u]
           /\ rem' = seed.rem
           /\ it' = len - 3
           /\ failed' = failed \cup Req(len >= 3, "by2.len")
                               \cup Req(len - 1 <= NumWords, "index.u")
                               \cup Req(reciprocal_3by2_ok(knuth_divisor(na.divisor, 2)),
                                        "reciprocal")
    /\ pc' = "by2"
    /\ UNCHANGED <<u, v, q, j, last, res, sm, xc>>

By2Step ==
    /\ pc = "by2"
    /\ it >= 0
    /\ LET t == by2_step(na.numerator, it, rem, knuth_divisor(na.divisor, 2))
       IN  /\ na' = [na EXCEPT !.numerator = t.u]
           /\ rem' = t.rem
           /\ failed' = failed \cup Req(t.ok, "3by2")
    /\ it' = it - 1
    /\ UNCHANGED <<u, v, pc, q, j, last, res, sm, xc>>

By2Return ==
    /\ pc = "by2"
    /\ it < 0
    /\ res' = small_result(na.numerator, rem, na.shift)
    /\ pc' = "done2"
    /\ UNCHANGED <<u, v, na, q, rem, it, j, last, failed, sm, xc>>

\* The call of udivrem_knuth, up to its loop.
KnuthEnter ==
    /\ pc = "dispatch"
    /\ ~early_return(na)
    /\ na.num_divisor_words \notin {1, 2}
    /\ LET ulen == na.num_numerator_words
           dlen == na.num_divisor_words
       IN  /\ j' = knuth_first_j(ulen, dlen)
           /\ failed' = failed \cup Req(dlen >= 3, "knuth.dlen")
                               \cup Req(ulen >= dlen, "knuth.ulen")
                               \cup Req(reciprocal_3by2_ok(knuth_divisor(na.divisor, dlen)),
                                        "reciprocal")
    /\ q' = Zeros(NumWords)
    /\ pc' = "knuth"
    /\ UNCHANGED <<u, v, na, rem, it, last, res, sm, xc>>

\* Its window u[j .. j + dlen], as a number.
Window(un, dlen, k) == Val(SubSeq(un, k + 1, k + dlen + 1))

KnuthStep ==
    /\ pc = "knuth"
    /\ j >= 0
    /\ LET dlen == na.num_divisor_words
           t == knuth_step(na.numerator, na.divisor, dlen, j)
       IN  /\ na' = [na EXCEPT !.numerator = t.u]
           /\ q' = Put(q, j, t.qhat)
           /\ last' = [branch |-> IF knuth_overflows(na.numerator, na.divisor, dlen, j)
                                  THEN "overflow" ELSE "normal",
                       j |-> j,
                       window |-> Window(na.numerator, dlen, j),
                       trial |-> t.trial,
                       carry |-> t.carry,
                       wrapped |-> t.wrapped,
                       overflowed |-> last.overflowed
                                        \/ knuth_overflows(na.numerator, na.divisor, dlen, j)]
           /\ failed' = failed \cup t.failed
                               \cup Req(j + dlen <= NumWords, "index.u")
                               \cup Req(j <= NumWords - 1, "index.q")
    /\ j' = j - 1
    /\ UNCHANGED <<u, v, pc, rem, it, res, sm, xc>>

\* The loop has ended; udivrem rebuilds the remainder and returns {q, r}.
KnuthReturn ==
    /\ pc = "knuth"
    /\ j < 0
    /\ res' = [quot |-> q,
               rem |-> denormalize(na.numerator, na.num_divisor_words, na.shift)]
    /\ failed' = failed
                   \cup Req(\A s \in denormalize_shifts(na.shift) : s < WordBits, "shift")
                   \cup Req(na.num_divisor_words - 1 <= NumWords, "index.un")
    /\ pc' = "done3"
    /\ UNCHANGED <<u, v, na, q, rem, it, j, last, sm, xc>>

Next ==
    \/ Normalize
    \/ EarlyReturn
    \/ By1Enter \/ By1Step \/ By1Return
    \/ By2Enter \/ By2Step \/ By2Return
    \/ KnuthEnter \/ KnuthStep \/ KnuthReturn

Spec == Init /\ [][Next]_vars

Returned == pc \in {"early", "done1", "done2", "done3"}

(***************************************************************************)
(* What the call is to compute.                                            *)
(***************************************************************************)
U == Val(u)
V == Val(v)
TrueQuot == U \div V
TrueRem == U % V

\* The normalized divisor, as a number, and the pre-shift remainder.
NormDivisor == Val(SubSeq(na.divisor, 1, na.num_divisor_words))
NormRem == TrueRem * 2 ^ na.shift

Identity ==
    /\ Val(res.quot) * V + Val(res.rem) = U
    /\ Val(res.rem) < V
    /\ Len(res.quot) = NumWords
    /\ Len(res.rem) = NumWords

LastWindowRem ==
    Val(SubSeq(na.numerator, last.j + 1, last.j + na.num_divisor_words))

\* C5: after an iteration of udivrem_knuth through the normal branch, the
\* trial digit of udivrem_3by2 was the true digit of the window or one above
\* it, the final borrow was set exactly when it was one above, the window
\* u[j .. j+dlen-1] holds the window's remainder by d, and q[j] is the true
\* digit.
C5_TrialDigit ==
    (pc \in {"knuth", "done3"} /\ last.branch = "normal") =>
        LET digit == last.window \div NormDivisor
        IN  /\ last.trial \in {digit, digit + 1}
            /\ last.carry <=> (last.trial = digit + 1)
            /\ LastWindowRem = last.window % NormDivisor
            /\ LastWindowRem < NormDivisor
            /\ At(q, last.j) = digit
            /\ ~last.wrapped

\* An iteration whose trial digit was one too high.
C5_Witness ==
    /\ pc \in {"knuth", "done3"}
    /\ last.branch = "normal"
    /\ last.carry
    /\ last.trial = (last.window \div NormDivisor) + 1

\* C6: after an iteration of udivrem_knuth through the overflow branch, the
\* stored digit WordMax is the true digit of the window, u[j+dlen] is 0 and
\* was computed without wrap-around, the window u[j .. j+dlen-1] holds the
\* window's remainder by d, below d; and a call that took the branch still
\* returns the quotient and remainder.
C6_OverflowBranch ==
    /\ (pc \in {"knuth", "done3"} /\ last.branch = "overflow") =>
           /\ At(q, last.j) = WordMax
           /\ last.window \div NormDivisor = WordMax
           /\ At(na.numerator, last.j + na.num_divisor_words) = 0
           /\ ~last.wrapped
           /\ ~last.carry
           /\ LastWindowRem = last.window % NormDivisor
           /\ LastWindowRem < NormDivisor
    /\ (pc = "done3" /\ last.overflowed) => Identity

\* An iteration took the overflow branch.
C6_Witness ==
    /\ pc \in {"knuth", "done3"}
    /\ last.branch = "overflow"
    /\ At(q, last.j) = WordMax

\* C8: the remainder the Knuth path returns is the low num_divisor_words
\* words of the working numerator shifted right by shift, exactly: the bits
\* shifted out are zero, the words from num_divisor_words on are zero, and
\* no shift by the word width is evaluated.
C8_Denormalize ==
    pc = "done3" =>
        LET n == na.num_divisor_words
        IN  /\ Val(res.rem) * 2 ^ na.shift = Val(SubSeq(na.numerator, 1, n))
            /\ Val(res.rem) = TrueRem
            /\ \A i \in n .. NumWords - 1 : At(res.rem, i) = 0
            /\ At(res.rem, n - 1) = shr(At(na.numerator, n - 1), na.shift)
            /\ "shift" \notin failed

\* A remainder whose low word takes bits of two words of the numerator.
C8_Witness ==
    /\ pc = "done3"
    /\ na.shift > 0
    /\ shr(At(na.numerator, 0), na.shift) # 0
    /\ shl(At(na.numerator, 1), WordBits - na.shift) # 0

By2Running ==
    /\ pc = "by2"
    /\ it = 0
    /\ rem.hi > 0

\* C9, as stated: at the end of a path the low num_divisor_words words of
\* the working numerator (num_divisor_words - 1 on the 1-word and 2-word
\* paths) hold the pre-shift remainder and the words above them, up to
\* num_numerator_words, hold the quotient.
C9_LayoutAsStated ==
    LET n == na.num_divisor_words
        m == na.num_numerator_words
    IN  /\ pc \in {"done1", "done2"} =>
               /\ Val(SubSeq(na.numerator, 1, n - 1)) = NormRem
               /\ Val(SubSeq(na.numerator, n, m)) = TrueQuot
        /\ pc = "done3" =>
               /\ Val(SubSeq(na.numerator, 1, n)) = NormRem
               /\ Val(SubSeq(na.numerator, n + 1, m)) = TrueQuot

\* C9, amended: at the end of the 1-word and 2-word paths the whole working
\* numerator holds the quotient, its top one (two) words zero, and the
\* pre-shift remainder is in rem, not in the array; at the end of the Knuth
\* path the low num_divisor_words words of the working numerator hold the
\* pre-shift remainder and the quotient is in q.
C9_Layout ==
    LET n == na.num_divisor_words
        m == na.num_numerator_words
    IN  /\ pc = "done1" => /\ Val(na.numerator) = TrueQuot
                           /\ At(na.numerator, m - 1) = 0
                           /\ Val128(rem) = NormRem
        /\ pc = "done2" => /\ Val(na.numerator) = TrueQuot
                           /\ At(na.numerator, m - 1) = 0
                           /\ At(na.numerator, m - 2) = 0
                           /\ Val128(rem) = NormRem
        /\ pc = "done3" => /\ Val(SubSeq(na.numerator, 1, n)) = NormRem
                           /\ Val(q) = TrueQuot

\* The 2-word path has ended with a quotient and a two-word remainder.
C9_Witness ==
    /\ pc = "done2"
    /\ TrueQuot > Base
    /\ NormRem >= Base
    /\ At(na.numerator, 0) # 0

(***************************************************************************)
(* submul on its own: r = x - multiplier * y, r apart from x and r = x.    *)
(***************************************************************************)
SubmulCalls ==
    UNION {[state : {"call"}, len : {l}, x : [1 .. l -> InputWords],
            y : [1 .. l -> InputWords], multiplier : Words] : l \in 1 .. MaxLen}

Idle ==
    /\ u = Zeros(NumWords)
    /\ v = Zeros(NumWords)
    /\ pc = "idle"
    /\ na = NoNa
    /\ q = Zeros(NumWords)
    /\ rem = NoRem
    /\ it = 0
    /\ j = 0
    /\ last = NoLast
    /\ res = NoRes
    /\ failed = {}

InitSubmul ==
    /\ Idle
    /\ sm \in SubmulCalls
    /\ xc = NoXc

\* The memory is x, y, then len words for r; in place, r is x.
SubmulCall ==
    /\ sm.state = "call"
    /\ LET len == sm.len
           apart == submul(sm.x \o sm.y \o Zeros(len), 2 * len, 0, len, len, sm.multiplier)
           inplace == submul(sm.x \o sm.y, 0, 0, len, len, sm.multiplier)
       IN  sm' = [state |-> "done", len |-> len, x |-> sm.x, y |-> sm.y,
                  multiplier |-> sm.multiplier,
                  r |-> SubSeq(apart.mem, 2 * len + 1, 3 * len),
                  x_after |-> SubSeq(apart.mem, 1, len),
                  y_after |-> SubSeq(apart.mem, len + 1, 2 * len),
                  borrow |-> apart.borrow,
                  wrapped |-> apart.wrapped,
                  r_inplace |-> SubSeq(inplace.mem, 1, len),
                  borrow_inplace |-> inplace.borrow]
    /\ UNCHANGED <<u, v, pc, na, q, rem, it, j, last, res, failed, xc>>

NextSubmul == SubmulCall

SpecSubmul == InitSubmul /\ [][NextSubmul]_vars

\* C7: submul(r, x, y, len, multiplier) leaves in r and returns as borrow b
\* the numbers with value(x) - multiplier * value(y) = value(r) - b * Base^len,
\* 0 <= b <= WordMax; no per-word borrow p.hi + s.carry + t.carry exceeds
\* WordMax; and r and b are the same when r is x.
C7_Submul ==
    sm.state = "done" =>
        /\ Val(sm.x) - sm.multiplier * Val(sm.y) = Val(sm.r) - sm.borrow * Base ^ sm.len
        /\ sm.borrow \in 0 .. WordMax
        /\ ~sm.wrapped
        /\ sm.x_after = sm.x
        /\ sm.y_after = sm.y
        /\ sm.r_inplace = sm.r
        /\ sm.borrow_inplace = sm.borrow

\* A call over two words that borrows in both and returns a borrow.
C7_Witness ==
    /\ sm.state = "done"
    /\ sm.len = 2
    /\ sm.borrow > 1
    /\ At(sm.x, 0) < At(sm.y, 0) * sm.multiplier
    /\ sm.r # sm.x

(***************************************************************************)
(* udivrem_by1 against udivrem_knuth, on the operands udivrem hands to     *)
(* udivrem_by1: a numerator whose top word is below the normalized word d. *)
(***************************************************************************)
CrossCalls ==
    {c \in [state : {"call"}, u : [1 .. NumWords -> InputWords], d : HighBit .. WordMax] :
        At(c.u, NumWords - 1) < c.d}

InitCross ==
    /\ Idle
    /\ sm = NoSm
    /\ xc \in CrossCalls

CrossBy1 ==
    /\ xc.state = "call"
    /\ LET t == udivrem_by1(xc.u, NumWords, xc.d)
       IN  xc' = [state |-> "by1", u |-> xc.u, d |-> xc.d,
                  q1 |-> t.u, r1 |-> t.rem, ok1 |-> t.ok]
    /\ UNCHANGED <<u, v, pc, na, q, rem, it, j, last, res, failed, sm>>

\* udivrem_knuth on the same numerator, the divisor padded with two leading
\* (most significant) zero words.
CrossKnuthPadded ==
    /\ xc.state = "by1"
    /\ LET t == udivrem_knuth(Zeros(NumWords), xc.u, NumWords, <<xc.d, 0, 0>>, 3)
       IN  xc' = [state |-> "padded", u |-> xc.u, d |-> xc.d,
                  q1 |-> xc.q1, r1 |-> xc.r1, ok1 |-> xc.ok1,
                  q2 |-> t.q, u2 |-> t.u, ok2 |-> t.ok]
    /\ UNCHANGED <<u, v, pc, na, q, rem, it, j, last, res, failed, sm>>

\* udivrem_knuth on the numerator and the divisor both scaled by Base^2
\* (two trailing, least significant, zero words).
CrossKnuthScaled ==
    /\ xc.state = "by1"
    /\ LET t == udivrem_knuth(Zeros(NumWords), <<0, 0>> \o xc.u, NumWords + 2,
                              <<0, 0, xc.d>>, 3)
       IN  xc' = [state |-> "scaled", u |-> xc.u, d |-> xc.d,
                  q1 |-> xc.q1, r1 |-> xc.r1, ok1 |-> xc.ok1,
                  q2 |-> t.q, u2 |-> t.u, ok2 |-> t.ok]
    /\ UNCHANGED <<u, v, pc, na, q, rem, it, j, last, res, failed, sm>>

NextCross == CrossBy1 \/ CrossKnuthPadded \/ CrossKnuthScaled

SpecCross == InitCross /\ [][NextCross]_vars

\* C3, as stated: udivrem_knuth, run on the numerator of udivrem_by1 with
\* the one-word divisor padded with leading zero words to dlen = 3, produces
\* the quotient and remainder udivrem_by1 produces.
C3_PaddedKnuthAgrees ==
    xc.state = "padded" =>
        /\ xc.ok2
        /\ xc.q2 = xc.q1
        /\ Val(SubSeq(xc.u2, 1, 3)) = xc.r1

\* C3, amended: udivrem_by1 produces the quotient and remainder of the
\* numerator by d, and udivrem_knuth produces the same quotient, and the
\* remainder scaled by Base^2, when the numerator and the divisor are both
\* padded with two low-order zero words (dlen = 3, top divisor word
\* normalized).
C3_ScaledKnuthAgrees ==
    /\ xc.state \in {"by1", "padded", "scaled"} =>
           /\ xc.ok1
           /\ Val(xc.q1) = Val(xc.u) \div xc.d
           /\ xc.r1 = Val(xc.u) % xc.d
    /\ xc.state = "scaled" =>
           /\ xc.ok2
           /\ xc.q2 = xc.q1
           /\ SubSeq(xc.u2, 1, 3) = <<0, 0, xc.r1>>

\* Both have run, to a quotient of several words and a remainder.
C3_Witness ==
    /\ xc.state = "scaled"
    /\ xc.r1 > 0
    /\ Val(xc.q2) > Base
    /\ xc.ok2

=============================================================================
